---------------------------- MODULE Spec2Model ----------------------------
(***************************************************************************)
(* Model of src/server.js: an agar.io-style authoritative game server.     *)
(*                                                                         *)
(* Number representation.  The program computes in IEEE doubles; the model *)
(* computes in fixed point.  Lengths (x, y, radius) are integers counting  *)
(* quanta of 1/Q world unit, velocities are quanta per second, times (dt,  *)
(* mergeTimer) are milliseconds, unit vectors are in 1/UNIT.  An area is   *)
(* carried in units of pi/Q^2 world area, so cellAreaFromRadius(r) = r*r   *)
(* and radiusFromArea is the square root rounded to the nearest quantum    *)
(* (as the double sqrt is rounded to the nearest double).  Every product   *)
(* that the program rounds is rounded here too (RoundDiv).                 *)
(*                                                                         *)
(* Object identity (indexOf(cB), c !== cell) is modelled by a field id on  *)
(* every cell: <<owner id, serial within owner>>.                          *)
(***************************************************************************)
EXTENDS Integers, Sequences, FiniteSets, TLC

(* ---------------- CONFIG (src/server.js 8-20) ---------------- *)
TICK_RATE == 20
WORLD_SIZE == 6000
BASE_SPEED == 400
SPLIT_SPEED == 400
MERGE_TIME == 10
FOOD_COUNT == 60
FOOD_RADIUS == 15
VIRUS_COUNT == 20
VIRUS_RADIUS == 60
MAX_VIRUS_PIECES == 16
TARGET_SPEED_MULTIPLIER == 1

(* ---------------- fixed point ---------------- *)
Q == 4
UNIT == 1000
MS == 1000
TS == 8
PI_NUM == 355
PI_DEN == 113

(* ---------------- bounds of the model ---------------- *)
MaxPlayers == 2
MaxTicks == 1
MaxCells == 4
MaxMsgs == 3
MaxSplitCells == 2
MaxLeaderPlayers == 11
MaxQtObjs == 11
MaxQtOthers == 2
MaxMergeCells == 3

(* ---------------- arithmetic helpers ---------------- *)
Abs(n) == IF n < 0 THEN -n ELSE n

Min(a, b) == IF a < b THEN a ELSE b

Max(a, b) == IF a > b THEN a ELSE b

\* a / b rounded to the nearest integer, halves away from zero (b > 0)
RoundDiv(a, b) == IF a >= 0 THEN (2 * a + b) \div (2 * b) ELSE -((2 * (-a) + b) \div (2 * b))

\* Math.floor(a / b) for b > 0
FloorDiv(a, b) == a \div b

RECURSIVE SqrtBisect(_, _, _)
SqrtBisect(n, lo, hi) ==
  IF lo >= hi THEN lo
  ELSE LET mid == (lo + hi + 1) \div 2
       IN IF mid * mid <= n THEN SqrtBisect(n, mid, hi) ELSE SqrtBisect(n, lo, mid - 1)

\* Math.sqrt rounded to the nearest integer, 0 <= n < 2^31
RoundSqrt(n) ==
  LET s == SqrtBisect(n, 0, 46340)
  IN IF n - s * s > s THEN s + 1 ELSE s

RECURSIVE SumSeq(_)
SumSeq(s) == IF s = <<>> THEN 0 ELSE Head(s) + SumSeq(Tail(s))

RECURSIVE SetToSeq(_)
\* a finite set of integers as the ascending sequence (Map iteration order
\* of ids that are inserted in increasing order)
SetToSeq(S) ==
  IF S = {} THEN <<>>
  ELSE LET m == CHOOSE x \in S : \A y \in S : x <= y
       IN <<m>> \o SetToSeq(S \ {m})

(* ---------------- HELPERS (src/server.js 37-57) ---------------- *)
cellAreaFromRadius(r) == r * r

radiusFromArea(a) == RoundSqrt(a)

\* Math.hypot(dx, dy) || 1 of a direction vector; dx, dy and the result in 1/UNIT
HypotOr1(dx, dy) ==
  LET h == RoundSqrt(dx * dx + dy * dy)
  IN IF h = 0 THEN UNIT ELSE h

\* dx / len for dx and len in 1/UNIT; result in 1/UNIT
DivLen(dx, len) == RoundDiv(dx * UNIT, len)

\* u * k for a component u of a unit vector (1/UNIT) and a length k
Scale(u, k) == RoundDiv(u * k, UNIT)

(* ---------------- inputs drawn by the environment ---------------- *)
\* values of randPos() used for a new player's cell (world units)
SpawnPts == {<<2990, 0>>, <<0, 0>>}

\* values of randPos() used for food pushed by the top-up loop
FoodSpawnPts == {<<20, 0>>, <<-2000, 1000>>}

\* values of randPos() used when a virus is relocated
VirusSpawnPts == {<<-1000, -1000>>, <<0, 100>>}

\* values of 0.8 + Math.random() * 0.4 in explodeCellIntoMany, in 1/UNIT
JitterSet == {800, 1199}

\* values of now - lastTime, in milliseconds
DtSet == {50, 10000}

\* decoded message bodies; BadJSON stands for text JSON.parse rejects
BadJSON == [bad |-> TRUE]

Messages ==
  { [type |-> "join", skin |-> 2],
    [type |-> "input", dir |-> <<3, 4>>],
    [type |-> "input", dir |-> <<1>>],
    [type |-> "split"],
    [type |-> "eject"],
    [type |-> "ping"],
    BadJSON }

(* ---------------- STATE (src/server.js 24-33) ---------------- *)
VARIABLES
  nextPlayerId, nextFoodId, nextVirusId,
  clients,      \* the connections (ws) that map to a player id; ws is named by that id
  players,      \* id -> player record, iterated in increasing id
  foods, viruses,
  pc,           \* position of update() between its passes; "idle" outside a tick
  dt,           \* dt of the running tick, ms
  ticks,        \* completed ticks
  eatLog,       \* cell-vs-cell hits of the running tick, in order
  explodeLog,   \* explodeCellIntoMany calls of the running tick, in order
  mergeLog,     \* merges of the running tick, in order
  msgs          \* messages received so far

vars == <<nextPlayerId, nextFoodId, nextVirusId, clients, players, foods, viruses,
          pc, dt, ticks, eatLog, explodeLog, mergeLog, msgs>>

PlayerIds == DOMAIN players

PlayerOrder == SetToSeq(PlayerIds)

(* ---------------- WORLD GEN (src/server.js 166-199) ---------------- *)
createFood(id, isEjected, x, y, vx, vy) ==
  [id |-> id, x |-> x, y |-> y, radius |-> FOOD_RADIUS * Q,
   vx |-> vx, vy |-> vy, isEjected |-> isEjected]

createVirus(id, x, y) == [id |-> id, x |-> x, y |-> y, radius |-> VIRUS_RADIUS * Q]

\* randPos() of the i-th initial food: one pellet near the east wall, a cluster
\* next to <<0, 0>>, the rest along a line in the south-west
FoodInitPos(i) ==
  IF i = 1 THEN <<2985, 0>>
  ELSE IF i <= 14 THEN <<20, 0>>
  ELSE <<-2900 + 40 * i, -2000>>

\* randPos() of the i-th initial virus: two next to <<0, 0>>, the rest along
\* a line in the north
VirusInitPos(i) ==
  IF i = 1 THEN <<100, 0>>
  ELSE IF i = 2 THEN <<0, 100>>
  ELSE <<-2500 + 250 * i, 2500>>

initWorldFoods ==
  [i \in 1..FOOD_COUNT |->
     createFood(i, FALSE, FoodInitPos(i)[1] * Q, FoodInitPos(i)[2] * Q, 0, 0)]

initWorldViruses ==
  [i \in 1..VIRUS_COUNT |->
     createVirus(i, VirusInitPos(i)[1] * Q, VirusInitPos(i)[2] * Q)]

(* ---------------- PLAYERS (src/server.js 203-226) ---------------- *)
createPlayer(id, x, y) ==
  [id |-> id,
   name |-> <<0, id>>,
   skin |-> -1,
   color |-> <<0, 0, 0>>,
   isBot |-> FALSE,
   cells |-> << [id |-> <<id, 1>>, x |-> x, y |-> y, radius |-> 40 * Q,
                 vx |-> 0, vy |-> 0, mergeTimer |-> MERGE_TIME * MS] >>,
   serial |-> 1,
   inputDir |-> <<0, 0>>,
   mouseX |-> 0,
   mouseY |-> 0,
   hasMouseTarget |-> FALSE]

Init ==
  /\ nextPlayerId = 1
  /\ nextFoodId = FOOD_COUNT + 1
  /\ nextVirusId = VIRUS_COUNT + 1
  /\ clients = {}
  /\ players = << >>
  /\ foods = initWorldFoods
  /\ viruses = initWorldViruses
  /\ pc = "idle"
  /\ dt = 0
  /\ ticks = 0
  /\ eatLog = <<>>
  /\ explodeLog = <<>>
  /\ mergeLog = <<>>
  /\ msgs = 0

(* ---------------- GAME LOGIC: split (src/server.js 390-425) ---------------- *)
RECURSIVE splitCells(_, _, _, _, _, _, _)
\* the for loop of splitPlayer over player.cells from index i: the cells as
\* updated in place (olds) and newCells
splitCells(cells, i, ux, uy, pid, serial, acc) ==
  IF i > Len(cells) THEN acc
  ELSE LET cell == cells[i] IN
    IF cell.radius < 10 * Q
    THEN splitCells(cells, i + 1, ux, uy, pid, serial,
                    [acc EXCEPT !.olds = Append(@, cell)])
    ELSE LET newRadius == RoundDiv(cell.radius, 2)
             spacing == RoundDiv(newRadius * 5, 2)
             cx == cell.x - RoundDiv(ux * spacing * 3, UNIT * 10)
             cy == cell.y - RoundDiv(uy * spacing * 3, UNIT * 10)
             moved == [cell EXCEPT !.radius = newRadius, !.mergeTimer = MERGE_TIME * MS,
                                   !.x = cx, !.y = cy]
             fresh == [id |-> <<pid, serial + Len(acc.news) + 1>>,
                       x |-> cx + Scale(ux, spacing),
                       y |-> cy + Scale(uy, spacing),
                       radius |-> newRadius,
                       vx |-> Scale(ux, SPLIT_SPEED * Q),
                       vy |-> Scale(uy, SPLIT_SPEED * Q),
                       mergeTimer |-> MERGE_TIME * MS]
         IN splitCells(cells, i + 1, ux, uy, pid, serial,
                       [olds |-> Append(acc.olds, moved), news |-> Append(acc.news, fresh)])

\* splitPlayer with the new cells put first
splitPlayerUnshift(player) ==
  LET dx == player.inputDir[1]
      dy == player.inputDir[2]
      len == HypotOr1(dx, dy)
      r == splitCells(player.cells, 1, DivLen(dx, len), DivLen(dy, len),
                      player.id, player.serial, [olds |-> <<>>, news |-> <<>>])
  IN [player EXCEPT !.cells = r.news \o r.olds, !.serial = @ + Len(r.news)]

splitPlayer(player) ==
  LET dx == player.inputDir[1]
      dy == player.inputDir[2]
      len == HypotOr1(dx, dy)
      r == splitCells(player.cells, 1, DivLen(dx, len), DivLen(dy, len),
                      player.id, player.serial, [olds |-> <<>>, news |-> <<>>])
  IN [player EXCEPT !.cells = r.olds \o r.news, !.serial = @ + Len(r.news)]

(* ---------------- GAME LOGIC: eject (src/server.js 427-458) ---------------- *)
RECURSIVE ejectCells(_, _, _, _, _)
\* the loop body of ejectMass without its two guards (radius < 35, newArea <= 0)
ejectCellsNoGuard(cells, i, ux, uy, acc) ==
  IF i > Len(cells) THEN acc
  ELSE LET cell == cells[i]
           newArea == cellAreaFromRadius(cell.radius) - cellAreaFromRadius(FOOD_RADIUS * Q) * 2
           rad == radiusFromArea(newArea)
           fx == cell.x + Scale(ux, rad + FOOD_RADIUS * Q + 2 * Q)
           fy == cell.y + Scale(uy, rad + FOOD_RADIUS * Q + 2 * Q)
           f == createFood(acc.nextFoodId, TRUE, fx, fy, Scale(ux, 900 * Q), Scale(uy, 900 * Q))
       IN ejectCells(cells, i + 1, ux, uy,
                     [cells |-> Append(acc.cells, [cell EXCEPT !.radius = rad]),
                      foods |-> Append(acc.foods, f),
                      nextFoodId |-> acc.nextFoodId + 1])

\* the for loop of ejectMass from index i: the cells as updated in place and
\* the foods pushed
ejectCells(cells, i, ux, uy, acc) ==
  IF i > Len(cells) THEN acc
  ELSE LET cell == cells[i]
           area == cellAreaFromRadius(cell.radius)
           ejectArea == cellAreaFromRadius(FOOD_RADIUS * Q) * 2
           newArea == area - ejectArea
       IN
    IF cell.radius < 35 * Q \/ newArea <= 0
    THEN ejectCells(cells, i + 1, ux, uy, [acc EXCEPT !.cells = Append(@, cell)])
    ELSE LET rad == radiusFromArea(newArea)
             speed == 900 * Q
             fx == cell.x + Scale(ux, rad + FOOD_RADIUS * Q + 2 * Q)
             fy == cell.y + Scale(uy, rad + FOOD_RADIUS * Q + 2 * Q)
             f == createFood(acc.nextFoodId, TRUE, fx, fy, Scale(ux, speed), Scale(uy, speed))
         IN ejectCells(cells, i + 1, ux, uy,
                       [cells |-> Append(acc.cells, [cell EXCEPT !.radius = rad]),
                        foods |-> Append(acc.foods, f),
                        nextFoodId |-> acc.nextFoodId + 1])

\* ejectMass(player): the player's cells, and foods and nextFoodId after it
ejectMass(player, fs, nextId) ==
  LET dx == player.inputDir[1]
      dy == player.inputDir[2]
      len == HypotOr1(dx, dy)
      start == [cells |-> <<>>, foods |-> fs, nextFoodId |-> nextId]
  IN IF len = 0 THEN [cells |-> player.cells, foods |-> fs, nextFoodId |-> nextId]
     ELSE ejectCells(player.cells, 1, DivLen(dx, len), DivLen(dy, len), start)


(* ---------------- QUADTREE (src/server.js 61-162) ---------------- *)
\* A node: boundary {x, y, w, h} in 1/TS quantum (so that every halving down
\* to maxDepth is exact), points in insertion order, and, once divided, kids
\* = <<nw, ne, sw, se>>.
QuadTree(boundary, capacity, depth, maxDepth) ==
  [boundary |-> boundary, capacity |-> capacity, depth |-> depth, maxDepth |-> maxDepth,
   points |-> <<>>, divided |-> FALSE, kids |-> <<>>]

subdivide(t) ==
  LET x == t.boundary.x
      y == t.boundary.y
      hw == t.boundary.w \div 2
      hh == t.boundary.h \div 2
      kid(cx, cy) == QuadTree([x |-> cx, y |-> cy, w |-> hw, h |-> hh],
                              t.capacity, t.depth + 1, t.maxDepth)
  IN [t EXCEPT !.divided = TRUE,
               !.kids = << kid(x - hw \div 2, y - hh \div 2), kid(x + hw \div 2, y - hh \div 2),
                           kid(x - hw \div 2, y + hh \div 2), kid(x + hw \div 2, y + hh \div 2) >>]

RECURSIVE insert(_, _)
RECURSIVE insertKids(_, _, _)
\* nw.insert(obj) || ne.insert(obj) || sw.insert(obj) || se.insert(obj), from kid k
insertKids(t, obj, k) ==
  IF k > 4 THEN [ok |-> FALSE, t |-> t]
  ELSE LET r == insert(t.kids[k], obj)
       IN IF r.ok THEN [ok |-> TRUE, t |-> [t EXCEPT !.kids[k] = r.t]]
          ELSE insertKids(t, obj, k + 1)

\* insert with the boundary taken as open: an object on an edge is refused
insertStrict(t, obj) ==
  LET b == t.boundary IN
  IF \/ obj.x * TS <= b.x - b.w \div 2
     \/ obj.x * TS >= b.x + b.w \div 2
     \/ obj.y * TS <= b.y - b.h \div 2
     \/ obj.y * TS >= b.y + b.h \div 2
  THEN [ok |-> FALSE, t |-> t]
  ELSE IF Len(t.points) < t.capacity \/ t.depth >= t.maxDepth
  THEN [ok |-> TRUE, t |-> [t EXCEPT !.points = Append(@, obj)]]
  ELSE insertKids(IF t.divided THEN t ELSE subdivide(t), obj, 1)

insert(t, obj) ==
  LET b == t.boundary IN
  IF \/ obj.x * TS < b.x - b.w \div 2
     \/ obj.x * TS > b.x + b.w \div 2
     \/ obj.y * TS < b.y - b.h \div 2
     \/ obj.y * TS > b.y + b.h \div 2
  THEN [ok |-> FALSE, t |-> t]
  ELSE IF Len(t.points) < t.capacity \/ t.depth >= t.maxDepth
  THEN [ok |-> TRUE, t |-> [t EXCEPT !.points = Append(@, obj)]]
  ELSE insertKids(IF t.divided THEN t ELSE subdivide(t), obj, 1)

RECURSIVE insertAll(_, _, _, _)
\* for (const o of objs) qt.insert(o), for objs[lo..hi] in order; the result of
\* insert is not used.  (Here and in the loops below the range is halved and
\* the first half is evaluated before the second is entered, which keeps
\* TLC's evaluation of long loops shallow; the order of the iterations is
\* the loop's.)
insertAll(t, objs, lo, hi) ==
  IF lo > hi THEN t
  ELSE IF lo = hi THEN insert(t, objs[lo]).t
  ELSE LET mid == (lo + hi) \div 2
           l == insertAll(t, objs, lo, mid)
       IN IF l.depth >= 0 THEN insertAll(l, objs, mid + 1, hi) ELSE l

InRange(p, range) ==
  /\ p.x >= range.x - range.w \div 2
  /\ p.x <= range.x + range.w \div 2
  /\ p.y >= range.y - range.h \div 2
  /\ p.y <= range.y + range.h \div 2

RECURSIVE queryRange(_, _, _)
\* range {x, y, w, h} in quanta
queryRange(t, range, found) ==
  LET b == t.boundary IN
  IF \/ (range.x - range.w \div 2) * TS > b.x + b.w \div 2
     \/ (range.x + range.w \div 2) * TS < b.x - b.w \div 2
     \/ (range.y - range.h \div 2) * TS > b.y + b.h \div 2
     \/ (range.y + range.h \div 2) * TS < b.y - b.h \div 2
  THEN found
  ELSE LET here == found \o SelectSeq(t.points, LAMBDA p : InRange(p, range))
       IN IF Len(here) >= 0 /\ t.divided
          THEN queryRange(t.kids[4], range,
                 queryRange(t.kids[3], range,
                   queryRange(t.kids[2], range,
                     queryRange(t.kids[1], range, here))))
          ELSE here

\* the maxDepth of both trees of update()
QtMaxDepth == 8

WorldBoundary == [x |-> 0, y |-> 0, w |-> WORLD_SIZE * Q * TS, h |-> WORLD_SIZE * Q * TS]

(* ---------------- MESSAGE HANDLING (src/server.js 315-386) ---------------- *)
\* msg.dir.map((v) => Number(v) || 0), in 1/UNIT
DirOf(msg) == <<msg.dir[1] * UNIT, msg.dir[2] * UNIT>>

\* a join that also gives a player without cells a new cell
onJoinRespawn(player, msg) ==
  LET p1 == IF "name" \in DOMAIN msg /\ Len(msg.name) > 0
            THEN [player EXCEPT !.name = SubSeq(msg.name, 1, Min(16, Len(msg.name)))]
            ELSE player
      p2 == IF "skin" \in DOMAIN msg THEN [p1 EXCEPT !.skin = msg.skin] ELSE p1
      p3 == IF "color" \in DOMAIN msg THEN [p2 EXCEPT !.color = msg.color] ELSE p2
  IN IF p3.cells = <<>> THEN [p3 EXCEPT !.cells = createPlayer(p3.id, 0, 0).cells] ELSE p3

onJoin(player, msg) ==
  LET p1 == IF "name" \in DOMAIN msg /\ Len(msg.name) > 0
            THEN [player EXCEPT !.name = SubSeq(msg.name, 1, Min(16, Len(msg.name)))]
            ELSE player
      p2 == IF "skin" \in DOMAIN msg THEN [p1 EXCEPT !.skin = msg.skin] ELSE p1
  IN IF "color" \in DOMAIN msg THEN [p2 EXCEPT !.color = msg.color] ELSE p2

onInput(player, msg) ==
  IF ~("dir" \in DOMAIN msg /\ Len(msg.dir) = 2) THEN player
  ELSE LET dir == DirOf(msg)
           dirLen == RoundSqrt(dir[1] * dir[1] + dir[2] * dir[2])
           mouseDistance == 100 * Q
           p1 == [player EXCEPT !.inputDir = dir]
       IN IF dirLen > 0 /\ Len(player.cells) > 0
          THEN [p1 EXCEPT !.mouseX = player.cells[1].x + Scale(dir[1], mouseDistance),
                          !.mouseY = player.cells[1].y + Scale(dir[2], mouseDistance),
                          !.hasMouseTarget = TRUE]
          ELSE p1

\* handleMessage with a switch that falls through to eject for any other type
HandleMessageFallThrough(ws, raw) ==
  /\ pc = "idle"
  /\ msgs < MaxMsgs
  /\ msgs' = msgs + 1
  /\ UNCHANGED <<nextPlayerId, nextVirusId, clients, viruses, pc, dt, ticks,
                 eatLog, explodeLog, mergeLog>>
  /\ IF "bad" \in DOMAIN raw \/ ws \notin clients \/ ws \notin PlayerIds
     THEN UNCHANGED <<players, foods, nextFoodId>>
     ELSE LET player == players[ws] IN
          CASE raw.type = "join" ->
                 /\ players' = [players EXCEPT ![ws] = onJoin(player, raw)]
                 /\ UNCHANGED <<foods, nextFoodId>>
            [] raw.type = "input" ->
                 /\ players' = [players EXCEPT ![ws] = onInput(player, raw)]
                 /\ UNCHANGED <<foods, nextFoodId>>
            [] raw.type = "split" ->
                 /\ players' = [players EXCEPT ![ws] = splitPlayer(player)]
                 /\ UNCHANGED <<foods, nextFoodId>>
            [] OTHER ->
                 LET r == ejectMass(player, foods, nextFoodId) IN
                 /\ players' = [players EXCEPT ![ws].cells = r.cells]
                 /\ foods' = r.foods
                 /\ nextFoodId' = r.nextFoodId

\* the message raw arrives on connection ws
HandleMessage(ws, raw) ==
  /\ pc = "idle"
  /\ msgs < MaxMsgs
  /\ msgs' = msgs + 1
  /\ UNCHANGED <<nextPlayerId, nextVirusId, clients, viruses, pc, dt, ticks,
                 eatLog, explodeLog, mergeLog>>
  /\ IF "bad" \in DOMAIN raw \/ ws \notin clients \/ ws \notin PlayerIds
     THEN UNCHANGED <<players, foods, nextFoodId>>
     ELSE LET player == players[ws] IN
          CASE raw.type = "join" ->
                 /\ players' = [players EXCEPT ![ws] = onJoin(player, raw)]
                 /\ UNCHANGED <<foods, nextFoodId>>
            [] raw.type = "input" ->
                 /\ players' = [players EXCEPT ![ws] = onInput(player, raw)]
                 /\ UNCHANGED <<foods, nextFoodId>>
            [] raw.type = "split" ->
                 /\ players' = [players EXCEPT ![ws] = splitPlayer(player)]
                 /\ UNCHANGED <<foods, nextFoodId>>
            [] raw.type = "eject" ->
                 LET r == ejectMass(player, foods, nextFoodId) IN
                 /\ players' = [players EXCEPT ![ws].cells = r.cells]
                 /\ foods' = r.foods
                 /\ nextFoodId' = r.nextFoodId
            [] OTHER -> UNCHANGED <<players, foods, nextFoodId>>

(* ---------------- SERVER SETUP (src/server.js 730-760) ---------------- *)
\* wss.on("connection"): the new player's cell is at <<x, y>> = <<randPos(), randPos()>>
Connect(x, y) ==
  /\ pc = "idle"
  /\ nextPlayerId <= MaxPlayers
  /\ players' = [id \in PlayerIds \cup {nextPlayerId} |->
                   IF id = nextPlayerId THEN createPlayer(id, x, y) ELSE players[id]]
  /\ clients' = clients \cup {nextPlayerId}
  /\ nextPlayerId' = nextPlayerId + 1
  /\ UNCHANGED <<msgs, nextFoodId, nextVirusId, foods, viruses, pc, dt, ticks,
                 eatLog, explodeLog, mergeLog>>

\* a close handler that could run between two phases of update()
CloseAnytime(ws) ==
  /\ ws \in clients
  /\ clients' = clients \ {ws}
  /\ players' = [id \in PlayerIds \ {ws} |-> players[id]]
  /\ UNCHANGED <<msgs, nextPlayerId, nextFoodId, nextVirusId, foods, viruses, pc, dt, ticks,
                 eatLog, explodeLog, mergeLog>>

\* ws.on("close")
Close(ws) ==
  /\ pc = "idle"
  /\ ws \in clients
  /\ clients' = clients \ {ws}
  /\ players' = [id \in PlayerIds \ {ws} |-> players[id]]
  /\ UNCHANGED <<msgs, nextPlayerId, nextFoodId, nextVirusId, foods, viruses, pc, dt, ticks,
                 eatLog, explodeLog, mergeLog>>

(* ---------------- BOT AI (src/server.js 260-311) ---------------- *)
None == [some |-> FALSE]

Dist2(ax, ay, bx, by) == (ax - bx) * (ax - bx) + (ay - by) * (ay - by)

RECURSIVE nearestFood(_, _, _, _, _)
\* the loop over foods: target after foods[lo..hi]
nearestFood(my, fs, lo, hi, target) ==
  IF lo > hi THEN target
  ELSE IF lo = hi
  THEN LET dist2 == Dist2(fs[lo].x, fs[lo].y, my.x, my.y)
       IN IF ~target.some \/ dist2 < target.dist2
          THEN [some |-> TRUE, x |-> fs[lo].x, y |-> fs[lo].y, dist2 |-> dist2]
          ELSE target
  ELSE LET mid == (lo + hi) \div 2
           l == nearestFood(my, fs, lo, mid, target)
       IN IF l.some \in BOOLEAN THEN nearestFood(my, fs, mid + 1, hi, l) ELSE l

RECURSIVE scanCells(_, _, _, _, _)
\* the loop over one other player's cells: [target, flee] after cells[lo..hi]
scanCells(my, cells, lo, hi, tf) ==
  IF lo > hi THEN tf
  ELSE IF lo = hi
  THEN LET c == cells[lo]
           dist2 == Dist2(c.x, c.y, my.x, my.y)
           hit == [some |-> TRUE, x |-> c.x, y |-> c.y, dist2 |-> dist2]
       IN IF c.radius * 10 > my.radius * 12
          THEN (IF ~tf.flee.some \/ dist2 < tf.flee.dist2
                THEN [tf EXCEPT !.flee = hit] ELSE tf)
          ELSE IF c.radius * 10 < my.radius * 8
          THEN (IF ~tf.target.some \/ dist2 < tf.target.dist2
                THEN [tf EXCEPT !.target = hit] ELSE tf)
          ELSE tf
  ELSE LET mid == (lo + hi) \div 2
           l == scanCells(my, cells, lo, mid, tf)
       IN IF l.flee.some \in BOOLEAN THEN scanCells(my, cells, mid + 1, hi, l) ELSE l

RECURSIVE scanPlayers(_, _, _, _, _)
scanPlayers(my, botId, ps, order, tf) ==
  IF order = <<>> THEN tf
  ELSE scanPlayers(my, botId, ps, Tail(order),
         IF Head(order) = botId THEN tf
         ELSE scanCells(my, ps[Head(order)].cells, 1, Len(ps[Head(order)].cells), tf))

\* botThink(bot); rnd is Math.random() < 0.01
botThink(bot, ps, fs, rnd) ==
  IF Len(bot.cells) = 0 THEN bot
  ELSE LET my == bot.cells[1]
           tf == scanPlayers(my, bot.id, ps, SetToSeq(DOMAIN ps),
                             [target |-> nearestFood(my, fs, 1, Len(fs), None), flee |-> None])
           vx == IF tf.flee.some THEN my.x - tf.flee.x
                 ELSE IF tf.target.some THEN tf.target.x - my.x ELSE 0
           vy == IF tf.flee.some THEN my.y - tf.flee.y
                 ELSE IF tf.target.some THEN tf.target.y - my.y ELSE 0
           h == RoundSqrt(vx * vx + vy * vy)
           len == IF h = 0 THEN 1 ELSE h
           aimed == [bot EXCEPT !.inputDir = <<RoundDiv(vx * UNIT, len), RoundDiv(vy * UNIT, len)>>]
       IN IF tf.target.some /\ rnd THEN splitPlayer(aimed) ELSE aimed

RECURSIVE botPass(_, _, _, _)
\* for (const p of players.values()) if (p.isBot) botThink(p)
botPass(ps, order, fs, rnd) ==
  IF order = <<>> THEN ps
  ELSE LET id == Head(order)
       IN botPass(IF ps[id].isBot THEN [ps EXCEPT ![id] = botThink(ps[id], ps, fs, rnd)] ELSE ps,
                  Tail(order), fs, rnd)

(* ---------------- update(dt): movement (src/server.js 515-572) ---------------- *)
moveFood(f, d) ==
  IF f.isEjected
  THEN [f EXCEPT !.x = @ + RoundDiv(f.vx * d, MS), !.y = @ + RoundDiv(f.vy * d, MS),
                 !.vx = RoundDiv(@ * 85, 100), !.vy = RoundDiv(@ * 85, 100)]
  ELSE f

worldHalf == (WORLD_SIZE * Q) \div 2

\* BASE_SPEED / Math.sqrt(c.radius / 40), quanta per second
SpeedOf(radius) ==
  RoundSqrt(RoundDiv((BASE_SPEED * Q) * (BASE_SPEED * Q) * (40 * Q), radius))

\* the new velocity of cell c of player p after the acceleration step
accelerate(p, c, d) ==
  LET speed == SpeedOf(c.radius) IN
  IF p.hasMouseTarget
  THEN LET dx == p.mouseX - c.x
           dy == p.mouseY - c.y
           distToMouse == RoundSqrt(dx * dx + dy * dy)
       IN IF 2 * distToMouse > c.radius
          THEN <<c.vx + RoundDiv(Scale(RoundDiv(dx * UNIT, distToMouse), speed) * d
                                   * TARGET_SPEED_MULTIPLIER, MS),
                 c.vy + RoundDiv(Scale(RoundDiv(dy * UNIT, distToMouse), speed) * d
                                   * TARGET_SPEED_MULTIPLIER, MS)>>
          ELSE <<RoundDiv(c.vx * 7, 10), RoundDiv(c.vy * 7, 10)>>
  ELSE LET dx == p.inputDir[1]
           dy == p.inputDir[2]
           dirLen == HypotOr1(dx, dy)
       IN <<c.vx + RoundDiv(Scale(DivLen(dx, dirLen), speed) * d, MS),
            c.vy + RoundDiv(Scale(DivLen(dy, dirLen), speed) * d, MS)>>

Clamp(v, radius) == Max(-worldHalf + radius, Min(worldHalf - radius, v))

\* one iteration of the body of "move players" for cell c of player p
moveCell(p, c, d) ==
  LET v == accelerate(p, c, d)
      x1 == c.x + RoundDiv(v[1] * d, MS)
      y1 == c.y + RoundDiv(v[2] * d, MS)
  IN [c EXCEPT !.x = Clamp(x1, c.radius),
               !.y = Clamp(y1, c.radius),
               !.vx = RoundDiv(v[1] * 86, 100),
               !.vy = RoundDiv(v[2] * 86, 100),
               !.mergeTimer = @ - d]

movePlayer(p, d) == [p EXCEPT !.cells = [i \in 1..Len(p.cells) |-> moveCell(p, p.cells[i], d)]]

(* ---------------- update(dt): eat food (src/server.js 574-602) ---------------- *)
\* (c.radius + f.radius) ** 2 and the like
Sq(n) == n * n

RECURSIVE eatNearby(_, _, _, _)
\* for (const f of nearby), over nearby[lo..hi]; st = [cell, dead]: the cell as
\* grown so far and the ids of the foods marked dead
eatNearby(st, nearby, lo, hi) ==
  IF lo > hi THEN st
  ELSE IF lo = hi
  THEN LET f == nearby[lo]
           c == st.cell
       IN IF f.id \in st.dead THEN st
          ELSE IF Dist2(c.x, c.y, f.x, f.y) < Sq(c.radius + f.radius)
          THEN LET areaC == cellAreaFromRadius(c.radius)
                   areaF == cellAreaFromRadius(f.radius)
               IN [cell |-> [c EXCEPT !.radius = radiusFromArea(areaC + areaF)],
                   dead |-> st.dead \cup {f.id}]
          ELSE st
  ELSE LET mid == (lo + hi) \div 2
           l == eatNearby(st, nearby, lo, mid)
       IN IF l.cell.radius >= 0 THEN eatNearby(l, nearby, mid + 1, hi) ELSE l

RECURSIVE eatFoodCells(_, _, _, _)
\* for (const c of p.cells), over cells[lo..hi]; st = [cells, dead]
eatFoodCells(st, qtFood, lo, hi) ==
  IF lo > hi THEN st
  ELSE IF lo = hi
  THEN LET c == st.cells[lo]
           range == [x |-> c.x, y |-> c.y, w |-> c.radius * 4, h |-> c.radius * 4]
           nearby == queryRange(qtFood, range, <<>>)
           r == eatNearby([cell |-> c, dead |-> st.dead], nearby, 1, Len(nearby))
       IN [cells |-> [st.cells EXCEPT ![lo] = r.cell], dead |-> r.dead]
  ELSE LET mid == (lo + hi) \div 2
           l == eatFoodCells(st, qtFood, lo, mid)
       IN IF Len(l.cells) >= 0 THEN eatFoodCells(l, qtFood, mid + 1, hi) ELSE l

RECURSIVE eatFoodPlayers(_, _, _, _)
eatFoodPlayers(ps, order, qtFood, dead) ==
  IF order = <<>> THEN [players |-> ps, dead |-> dead]
  ELSE LET cells == ps[Head(order)].cells
           r == eatFoodCells([cells |-> cells, dead |-> dead], qtFood, 1, Len(cells))
       IN eatFoodPlayers([ps EXCEPT ![Head(order)].cells = r.cells], Tail(order), qtFood, r.dead)

\* the top-up with the loop ending one pellet early
topUpShort(fs, nextId, x, y) ==
  LET n == Max(0, FOOD_COUNT - 1 - Len(fs))
  IN [foods |-> fs \o [k \in 1..n |-> createFood(nextId + k - 1, FALSE, x, y, 0, 0)],
      nextFoodId |-> nextId + n]

\* while (foods.length < FOOD_COUNT) foods.push(createFood(false)); the new
\* pellets are at <<x, y>>
topUp(fs, nextId, x, y) ==
  LET n == Max(0, FOOD_COUNT - Len(fs))
  IN [foods |-> fs \o [k \in 1..n |-> createFood(nextId + k - 1, FALSE, x, y, 0, 0)],
      nextFoodId |-> nextId + n]

\* foods = foods.filter((f) => !f.dead)
purgeDead(fs, dead) == SelectSeq(fs, LAMBDA f : f.id \notin dead)

(* ---------------- update(dt): cell vs cell (src/server.js 604-655) ---------------- *)
RECURSIVE cellItems(_, _)
\* allCells: one item per cell of every player, with the index k of the item
cellItems(ps, order) ==
  IF order = <<>> THEN <<>>
  ELSE LET p == ps[Head(order)]
       IN [i \in 1..Len(p.cells) |->
             [player |-> p.id, cell |-> p.cells[i].id, x |-> p.cells[i].x, y |-> p.cells[i].y,
              radius |-> p.cells[i].radius]]
          \o cellItems(ps, Tail(order))

Indexed(items) == [k \in 1..Len(items) |-> [k |-> k] @@ items[k]]

\* the eating test without the 15% margin
EatsNoMargin(ra, rb, dist2) ==
  /\ ~(ra <= rb)
  /\ 16 * dist2 < Sq(4 * ra - rb)

\* whether cA (radius ra) eats cB (radius rb) at squared distance dist2:
\* not (cA.radius <= cB.radius * 1.15), and dist2 < (cA.radius - cB.radius * 0.25) ** 2
Eats(ra, rb, dist2) ==
  /\ ~(ra * 100 <= rb * 115)
  /\ 16 * dist2 < Sq(4 * ra - rb)

\* one iteration of for (const other of nearby) for item a; st = [rad,
\* present, log]: the live radius of each item's cell, whether the cell is
\* still in its owner's cells, and the hits so far
eatOne(items, a, other, st) ==
  LET b == other.k
      ra == st.rad[a]
      rb == st.rad[b]
      dist2 == Dist2(items[a].x, items[a].y, items[b].x, items[b].y)
  IN IF b = a \/ items[a].player = items[b].player \/ ~Eats(ra, rb, dist2)
     THEN st
     ELSE [rad |-> [st.rad EXCEPT ![a] =
                      radiusFromArea(cellAreaFromRadius(ra) + cellAreaFromRadius(rb))],
           present |-> [st.present EXCEPT ![b] = FALSE],
           log |-> Append(st.log,
                     [eater |-> items[a].cell, eaterOwner |-> items[a].player,
                      eaterPresent |-> st.present[a],
                      victim |-> items[b].cell, victimOwner |-> items[b].player,
                      removed |-> st.present[b],
                      ra |-> ra, rb |-> rb, dist2 |-> dist2])]

RECURSIVE eatOthers(_, _, _, _, _, _)
\* for (const other of nearby), over nearby[lo..hi]
eatOthers(items, a, nearby, st, lo, hi) ==
  IF lo > hi THEN st
  ELSE IF lo = hi THEN eatOne(items, a, nearby[lo], st)
  ELSE LET mid == (lo + hi) \div 2
           l == eatOthers(items, a, nearby, st, lo, mid)
       IN IF Len(l.log) >= 0 THEN eatOthers(items, a, nearby, l, mid + 1, hi) ELSE l

RECURSIVE eatPass(_, _, _, _, _)
\* for (const item of allCells), over items[lo..hi]
eatPass(items, qtCells, st, lo, hi) ==
  IF lo > hi THEN st
  ELSE IF lo = hi
  THEN LET range == [x |-> items[lo].x, y |-> items[lo].y,
                     w |-> st.rad[lo] * 4, h |-> st.rad[lo] * 4]
           nearby == queryRange(qtCells, range, <<>>)
       IN eatOthers(items, lo, nearby, st, 1, Len(nearby))
  ELSE LET mid == (lo + hi) \div 2
           l == eatPass(items, qtCells, st, lo, mid)
       IN IF Len(l.log) >= 0 THEN eatPass(items, qtCells, l, mid + 1, hi) ELSE l

\* the whole pass over players ps
cellVsCell(ps) ==
  LET items == Indexed(cellItems(ps, SetToSeq(DOMAIN ps)))
      qtCells == insertAll(QuadTree(WorldBoundary, 8, 0, QtMaxDepth), items, 1, Len(items))
  IN [items |-> items,
      st |-> eatPass(items, qtCells,
                     [rad |-> [k \in 1..Len(items) |-> items[k].radius],
                      present |-> [k \in 1..Len(items) |-> TRUE],
                      log |-> <<>>],
                     1, Len(items))]

\* the index in items of the cell with identity id
ItemOf(items, id) == CHOOSE k \in 1..Len(items) : items[k].cell = id

\* p.cells after the pass: the cells not spliced out, with their live radius
cellsAfterEat(p, items, st) ==
  LET kept == SelectSeq(p.cells, LAMBDA c : st.present[ItemOf(items, c.id)])
  IN [i \in 1..Len(kept) |-> [kept[i] EXCEPT !.radius = st.rad[ItemOf(items, kept[i].id)]]]

(* ---------------- explodeCellIntoMany (src/server.js 460-491) ---------------- *)
\* Math.cos(2 * Math.PI * i / pieces) in 1/UNIT, row pieces - 7, column i + 1
CosTable ==
  << <<1000, 707, 0, -707, -1000, -707, 0, 707>>,
     <<1000, 766, 174, -500, -940, -940, -500, 174, 766>>,
     <<1000, 809, 309, -309, -809, -1000, -809, -309, 309, 809>>,
     <<1000, 841, 415, -142, -655, -959, -959, -655, -142, 415, 841>>,
     <<1000, 866, 500, 0, -500, -866, -1000, -866, -500, 0, 500, 866>>,
     <<1000, 885, 568, 121, -355, -749, -971, -971, -749, -355, 121, 568, 885>>,
     <<1000, 901, 623, 223, -223, -623, -901, -1000, -901, -623, -223, 223, 623, 901>>,
     <<1000, 914, 669, 309, -105, -500, -809, -978, -978, -809, -500, -105, 309, 669, 914>>,
     <<1000, 924, 707, 383, 0, -383, -707, -924, -1000, -924, -707, -383, 0, 383, 707, 924>> >>

\* Math.sin(2 * Math.PI * i / pieces) in 1/UNIT
SinTable ==
  << <<0, 707, 1000, 707, 0, -707, -1000, -707>>,
     <<0, 643, 985, 866, 342, -342, -866, -985, -643>>,
     <<0, 588, 951, 951, 588, 0, -588, -951, -951, -588>>,
     <<0, 541, 910, 990, 756, 282, -282, -756, -990, -910, -541>>,
     <<0, 500, 866, 1000, 866, 500, 0, -500, -866, -1000, -866, -500>>,
     <<0, 465, 823, 993, 935, 663, 239, -239, -663, -935, -993, -823, -465>>,
     <<0, 434, 782, 975, 975, 782, 434, 0, -434, -782, -975, -975, -782, -434>>,
     <<0, 407, 743, 951, 995, 866, 588, 208, -208, -588, -866, -995, -951, -743, -407>>,
     <<0, 383, 707, 924, 1000, 924, 707, 383, 0, -383, -707, -924, -1000, -924, -707, -383>> >>

\* Math.min(MAX_VIRUS_PIECES, Math.max(8, Math.floor(totalArea / 2000)))
PiecesOf(radius) ==
  Min(MAX_VIRUS_PIECES,
      Max(8, FloorDiv(PI_NUM * cellAreaFromRadius(radius), PI_DEN * Q * Q * 2000)))

\* newCells; jitter is 0.8 + Math.random() * 0.4 in 1/UNIT
fragments(player, cell, jitter) ==
  LET totalArea == cellAreaFromRadius(cell.radius)
      pieces == PiecesOf(cell.radius)
      pieceArea == RoundDiv(totalArea, pieces)
      pieceRadius == radiusFromArea(pieceArea)
      minDistance == pieceRadius * 3
      speed == 200 * Q
      distance == Scale(jitter, minDistance)
  IN [n \in 1..pieces |->
        [id |-> <<player.id, player.serial + n>>,
         x |-> cell.x + Scale(CosTable[pieces - 7][n], distance),
         y |-> cell.y + Scale(SinTable[pieces - 7][n], distance),
         radius |-> pieceRadius,
         vx |-> Scale(CosTable[pieces - 7][n], speed),
         vy |-> Scale(SinTable[pieces - 7][n], speed),
         mergeTimer |-> (MERGE_TIME * MS * 12) \div 10]]

explodeCellIntoMany(player, cell, jitter) ==
  LET newCells == fragments(player, cell, jitter)
  IN [player EXCEPT !.cells = SelectSeq(@, LAMBDA c : c.id # cell.id) \o newCells,
                    !.serial = @ + Len(newCells)]

(* ---------------- update(dt): viruses (src/server.js 657-672) ---------------- *)
\* the body of for (const v of viruses) for virus vi and the cell c of player
\* pid; st = [players, viruses, log]; reloc is <<randPos(), randPos()>>
virusHit(st, pid, c, vi, reloc, jitter) ==
  LET v == st.viruses[vi] IN
  IF Dist2(c.x, c.y, v.x, v.y) < Sq(c.radius + v.radius) /\ c.radius * 10 > v.radius * 11
  THEN [players |-> [st.players EXCEPT ![pid] = explodeCellIntoMany(@, c, jitter)],
        viruses |-> [st.viruses EXCEPT ![vi].x = reloc[1], ![vi].y = reloc[2]],
        log |-> Append(st.log,
                  [owner |-> pid, cell |-> c.id, radius |-> c.radius, virus |-> v.id,
                   frags |-> fragments(st.players[pid], c, jitter)])]
  ELSE st

RECURSIVE virusLoop(_, _, _, _, _, _, _)
\* for (const v of viruses), over viruses lo..hi
virusLoop(st, pid, c, reloc, jitter, lo, hi) ==
  IF lo > hi THEN st
  ELSE IF lo = hi THEN virusHit(st, pid, c, lo, reloc, jitter)
  ELSE LET mid == (lo + hi) \div 2
           l == virusLoop(st, pid, c, reloc, jitter, lo, mid)
       IN IF Len(l.log) >= 0 THEN virusLoop(l, pid, c, reloc, jitter, mid + 1, hi) ELSE l

RECURSIVE virusCells(_, _, _, _, _, _, _)
\* for (const c of p.cells), over cells[lo..hi]: cells is the array that
\* p.cells was when the loop began (explodeCellIntoMany assigns a new array
\* to p.cells, which this loop does not visit)
virusCells(st, pid, cells, reloc, jitter, lo, hi) ==
  IF lo > hi THEN st
  ELSE IF lo = hi THEN virusLoop(st, pid, cells[lo], reloc, jitter, 1, Len(st.viruses))
  ELSE LET mid == (lo + hi) \div 2
           l == virusCells(st, pid, cells, reloc, jitter, lo, mid)
       IN IF Len(l.log) >= 0 THEN virusCells(l, pid, cells, reloc, jitter, mid + 1, hi) ELSE l

RECURSIVE virusPlayers(_, _, _, _)
virusPlayers(st, order, reloc, jitter) ==
  IF order = <<>> THEN st
  ELSE LET cells == st.players[Head(order)].cells
       IN virusPlayers(virusCells(st, Head(order), cells, reloc, jitter, 1, Len(cells)),
                       Tail(order), reloc, jitter)

(* ---------------- update(dt): merging own cells (src/server.js 674-697) ---------------- *)
\* the merge test without the timers
MergesNoTimer(a, b) == Dist2(a.x, a.y, b.x, b.y) < Sq(a.radius + b.radius)

\* the merge test with the timers compared by >= 0
MergesStrictTimer(a, b) ==
  /\ ~(a.mergeTimer >= 0 \/ b.mergeTimer >= 0)
  /\ Dist2(a.x, a.y, b.x, b.y) < Sq(a.radius + b.radius)

\* the test of the merge loop on a = p.cells[i], b = p.cells[j]
Merges(a, b) ==
  /\ ~(a.mergeTimer > 0 \/ b.mergeTimer > 0)
  /\ Dist2(a.x, a.y, b.x, b.y) < Sq(a.radius + b.radius)

\* one iteration of the inner loop: b = p.cells[j]; st = [a, kept, log] with
\* a = p.cells[i] as grown so far and kept the cells after i that stay
mergeOne(st, b) ==
  LET a == st.a IN
  IF Merges(a, b)
  THEN LET areaA == cellAreaFromRadius(a.radius)
           areaB == cellAreaFromRadius(b.radius)
       IN [a |-> [a EXCEPT !.radius = radiusFromArea(areaA + areaB)],
           kept |-> st.kept,
           log |-> Append(st.log, [owner |-> a.id[1], into |-> a.id, gone |-> b.id,
                                   ta |-> a.mergeTimer, tb |-> b.mergeTimer,
                                   ra |-> a.radius, rb |-> b.radius,
                                   dist2 |-> Dist2(a.x, a.y, b.x, b.y)])]
  ELSE [st EXCEPT !.kept = Append(@, b)]

RECURSIVE mergeInner(_, _, _, _)
\* for (let j = i + 1; j < p.cells.length; j++): splice(j, 1) with j-- makes
\* the loop visit every cell after i once, in order; bs are those cells
mergeInner(st, bs, lo, hi) ==
  IF lo > hi THEN st
  ELSE IF lo = hi THEN mergeOne(st, bs[lo])
  ELSE LET mid == (lo + hi) \div 2
           l == mergeInner(st, bs, lo, mid)
       IN IF Len(l.kept) >= 0 THEN mergeInner(l, bs, mid + 1, hi) ELSE l

RECURSIVE mergeScan(_, _, _)
\* for (let i = 0; i < p.cells.length; i++), from i
mergeScan(cells, i, log) ==
  IF i > Len(cells) THEN [cells |-> cells, log |-> log]
  ELSE LET bs == SubSeq(cells, i + 1, Len(cells))
           r == mergeInner([a |-> cells[i], kept |-> <<>>, log |-> log], bs, 1, Len(bs))
       IN mergeScan(SubSeq(cells, 1, i - 1) \o <<r.a>> \o r.kept, i + 1, r.log)

RECURSIVE mergePlayers(_, _, _)
mergePlayers(ps, order, log) ==
  IF order = <<>> THEN [players |-> ps, log |-> log]
  ELSE LET id == Head(order) IN
    IF Len(ps[id].cells) <= 1 THEN mergePlayers(ps, Tail(order), log)
    ELSE LET r == mergeScan(ps[id].cells, 1, log)
         IN mergePlayers([ps EXCEPT ![id].cells = r.cells], Tail(order), r.log)

(* ---------------- update(dt), pass by pass (src/server.js 507-700) ---------------- *)
\* the timer callback starts update(d): bot AI
TickBots(d, rnd) ==
  /\ pc = "idle"
  /\ ticks < MaxTicks
  /\ dt' = d
  /\ players' = botPass(players, PlayerOrder, foods, rnd)
  /\ eatLog' = <<>>
  /\ explodeLog' = <<>>
  /\ mergeLog' = <<>>
  /\ pc' = "move"
  /\ UNCHANGED <<msgs, nextPlayerId, nextFoodId, nextVirusId, clients, foods, viruses, ticks>>

\* move ejected food, move players
TickMove ==
  /\ pc = "move"
  /\ foods' = [i \in 1..Len(foods) |-> moveFood(foods[i], dt)]
  /\ players' = [id \in PlayerIds |-> movePlayer(players[id], dt)]
  /\ pc' = "food"
  /\ UNCHANGED <<msgs, nextPlayerId, nextFoodId, nextVirusId, clients, viruses, dt, ticks,
                 eatLog, explodeLog, mergeLog>>

\* build quadtree for foods, eat food, purge, top up with pellets at <<x, y>>
TickFood(x, y) ==
  /\ pc = "food"
  /\ LET qtFood == insertAll(QuadTree(WorldBoundary, 10, 0, QtMaxDepth), foods, 1, Len(foods))
         r == eatFoodPlayers(players, PlayerOrder, qtFood, {})
         t == topUp(purgeDead(foods, r.dead), nextFoodId, x, y)
     IN /\ players' = r.players
        /\ foods' = t.foods
        /\ nextFoodId' = t.nextFoodId
  /\ pc' = "cells"
  /\ UNCHANGED <<msgs, nextPlayerId, nextVirusId, clients, viruses, dt, ticks,
                 eatLog, explodeLog, mergeLog>>

\* build quadtree for all cells, cell vs cell eating
TickCells ==
  /\ pc = "cells"
  /\ LET r == cellVsCell(players)
     IN /\ players' = [id \in PlayerIds |->
                         [players[id] EXCEPT !.cells = cellsAfterEat(players[id], r.items, r.st)]]
        /\ eatLog' = r.st.log
  /\ pc' = "viruses"
  /\ UNCHANGED <<msgs, nextPlayerId, nextFoodId, nextVirusId, clients, foods, viruses, dt, ticks,
                 explodeLog, mergeLog>>

\* viruses; relocated viruses go to <<x, y>>
TickViruses(x, y, jitter) ==
  /\ pc = "viruses"
  /\ LET r == virusPlayers([players |-> players, viruses |-> viruses, log |-> <<>>],
                           PlayerOrder, <<x, y>>, jitter)
     IN /\ players' = r.players
        /\ viruses' = r.viruses
        /\ explodeLog' = r.log
  /\ pc' = "merge"
  /\ UNCHANGED <<msgs, nextPlayerId, nextFoodId, nextVirusId, clients, foods, dt, ticks,
                 eatLog, mergeLog>>

\* merging own cells
TickMerge ==
  /\ pc = "merge"
  /\ LET r == mergePlayers(players, PlayerOrder, <<>>)
     IN /\ players' = r.players
        /\ mergeLog' = r.log
  /\ pc' = "broadcast"
  /\ UNCHANGED <<msgs, nextPlayerId, nextFoodId, nextVirusId, clients, foods, viruses, dt, ticks,
                 eatLog, explodeLog>>

\* broadcastState(); update returns
Broadcast ==
  /\ pc = "broadcast"
  /\ pc' = "idle"
  /\ ticks' = ticks + 1
  /\ UNCHANGED <<msgs, nextPlayerId, nextFoodId, nextVirusId, clients, players, foods, viruses, dt,
                 eatLog, explodeLog, mergeLog>>

\* the split that a client may still ask for within the model's bound on cells
SplitFits(ws) ==
  ws \in PlayerIds =>
    Len(players[ws].cells)
      + Cardinality({i \in 1..Len(players[ws].cells) : players[ws].cells[i].radius >= 10 * Q})
      <= MaxCells

Next ==
  \/ \E pos \in SpawnPts : Connect(pos[1] * Q, pos[2] * Q)
  \/ \E ws \in clients : Close(ws)
  \/ \E ws \in 1..(nextPlayerId - 1), raw \in Messages :
       /\ ("type" \in DOMAIN raw /\ raw.type = "split") => SplitFits(ws)
       /\ HandleMessage(ws, raw)
  \/ \E d \in DtSet, rnd \in BOOLEAN : TickBots(d, rnd)
  \/ TickMove
  \/ \E pos \in FoodSpawnPts : TickFood(pos[1] * Q, pos[2] * Q)
  \/ TickCells
  \/ \E pos \in VirusSpawnPts, jitter \in JitterSet : TickViruses(pos[1] * Q, pos[2] * Q, jitter)
  \/ TickMerge
  \/ Broadcast

Spec == Init /\ [][Next]_vars

(* ---------------- splitPlayer on its own (src/server.js 390-425) ---------------- *)
\* radii a cell can have come to, in quanta: 5 (40 split three times), 8.5
\* (40 after an eject, split twice), 10, 15.75 (5 and a pellet), 40
SplitRadii == {20, 34, 40, 63, 160}

\* the cells a player may hold when a split arrives
SplitCellChoices ==
  [x : {0, 1000}, y : {0}, radius : SplitRadii, vx : {0}, vy : {0},
   mergeTimer : {0, MERGE_TIME * MS}]

SplitMessages ==
  { [type |-> "input", dir |-> <<3, 4>>],
    [type |-> "input", dir |-> <<-1, 0>>],
    [type |-> "split"] }

\* one connected player holding up to MaxSplitCells cells, between ticks
SplitInit ==
  /\ nextPlayerId = 2
  /\ nextFoodId = FOOD_COUNT + 1
  /\ nextVirusId = VIRUS_COUNT + 1
  /\ clients = {1}
  /\ \E n \in 1..MaxSplitCells : \E cs \in [1..n -> SplitCellChoices] :
       players = << [createPlayer(1, 0, 0) EXCEPT
                       !.cells = [i \in 1..n |-> [id |-> <<1, i>>] @@ cs[i]],
                       !.serial = n] >>
  /\ foods = initWorldFoods
  /\ viruses = initWorldViruses
  /\ pc = "idle"
  /\ dt = 0
  /\ ticks = 0
  /\ eatLog = <<>>
  /\ explodeLog = <<>>
  /\ mergeLog = <<>>
  /\ msgs = 0

SplitNext ==
  \E raw \in SplitMessages :
    /\ raw.type = "split" => SplitFits(1)
    /\ HandleMessage(1, raw)

SplitSpec == SplitInit /\ [][SplitNext]_vars

(* ---------------- PROPERTIES ---------------- *)
\* the loop of calculateScoreFromCells: the total area of cells, in units of
\* pi / Q^2
totalArea(cells) == SumSeq([i \in 1..Len(cells) |-> cellAreaFromRadius(cells[i].radius)])

\* the total area of the cells held by all the players ps
worldArea(ps) ==
  LET order == SetToSeq(DOMAIN ps)
  IN SumSeq([k \in 1..Len(order) |-> totalArea(ps[order[k]].cells)])

\* the identities of cells
CellIds(cells) == {cells[i].id : i \in 1..Len(cells)}

\* radiusFromArea rounds to the nearest quantum, so the area of the result
\* differs from its argument by at most the result; the allowance for a
\* sequence of cells
RoundingSlack(cells) == SumSeq([i \in 1..Len(cells) |-> cells[i].radius + 1])

\* the ejected pellets in the world
EjectedCount == Cardinality({i \in 1..Len(foods) : foods[i].isEjected})

\* C1 (as amended): when update() returns, foods holds at least FOOD_COUNT
\* items and exceeds FOOD_COUNT by at most the number of ejected pellets
\* still in the world, so it is exactly FOOD_COUNT when there is none.
C1_FoodAtLeastCount ==
  pc = "broadcast" =>
    /\ Len(foods) >= FOOD_COUNT
    /\ Len(foods) - FOOD_COUNT <= EjectedCount

\* a tick ends with an ejected pellet in the world
C1_Witness == pc = "broadcast" /\ EjectedCount > 0 /\ Len(foods) > FOOD_COUNT

\* C1 (as claimed): when update() returns, foods holds exactly FOOD_COUNT items.
C1_FoodEqualsCount == pc = "broadcast" => Len(foods) = FOOD_COUNT

\* C2: in the state that is broadcast, every cell's centre is within
\* [-WORLD_SIZE/2 + radius, WORLD_SIZE/2 - radius] on both axes.
C2_Contained ==
  pc = "broadcast" =>
    \A id \in PlayerIds : \A i \in 1..Len(players[id].cells) :
      LET c == players[id].cells[i]
      IN /\ -worldHalf + c.radius <= c.x /\ c.x <= worldHalf - c.radius
         /\ -worldHalf + c.radius <= c.y /\ c.y <= worldHalf - c.radius

\* C3: the cell-vs-cell pass leaves the total area of all the players' cells
\* as it was (to the rounding of the radii that the pass sets).
C3_AreaConserved ==
  [][(pc = "cells" /\ pc' = "viruses") =>
       Abs(worldArea(players') - worldArea(players))
         <= SumSeq([k \in 1..Len(eatLog') |-> eatLog'[k].ra + eatLog'[k].rb])]_vars

\* C4: within one cell-vs-cell pass, no cell of a player's sequence grows by
\* the area of a victim that an earlier hit of the pass has already taken.
C4_SingleCredit ==
  \A i, j \in 1..Len(eatLog) :
    (i < j /\ eatLog[i].victim = eatLog[j].victim) => ~eatLog[j].eaterPresent

\* the cell of cells with identity id
CellOf(cells, id) == cells[CHOOSE i \in 1..Len(cells) : cells[i].id = id]

C6_MergeGate ==
  [][(pc = "merge" /\ pc' = "broadcast") =>
       \A id \in PlayerIds : \A i \in 1..Len(players[id].cells) :
         LET c == players[id].cells[i]
         IN /\ c.mergeTimer > 0 => \E j \in 1..Len(players'[id].cells) : players'[id].cells[j] = c
            /\ c.id \notin CellIds(players'[id].cells) =>
                 \E k \in 1..Len(mergeLog') :
                   LET e == mergeLog'[k]
                   IN /\ e.gone = c.id /\ e.owner = id
                      /\ e.into \in CellIds(players[id].cells)
                      /\ LET a == CellOf(players[id].cells, e.into)
                         IN /\ a.mergeTimer <= 0 /\ c.mergeTimer <= 0
                            /\ e.ra >= a.radius /\ e.rb = c.radius
                            /\ (a.x - c.x) * (a.x - c.x) + (a.y - c.y) * (a.y - c.y)
                                 < (e.ra + e.rb) * (e.ra + e.rb)]_vars

\* a merge pass has merged two cells
C6_Witness == pc = "broadcast" /\ mergeLog # <<>>

\* C7: two cells of one player that both have mergeTimer <= 0 and overlap
\* when the merge pass begins are not both in the player's sequence when it
\* ends.
C7_MergeHappens ==
  [][(pc = "merge" /\ pc' = "broadcast") =>
       \A id \in PlayerIds : \A i, j \in 1..Len(players[id].cells) :
         LET a == players[id].cells[i]
             b == players[id].cells[j]
         IN (/\ i < j
             /\ a.mergeTimer <= 0 /\ b.mergeTimer <= 0
             /\ (a.x - b.x) * (a.x - b.x) + (a.y - b.y) * (a.y - b.y)
                  < (a.radius + b.radius) * (a.radius + b.radius))
            => ~({a.id, b.id} \subseteq CellIds(players'[id].cells))]_vars

\* a merge pass has ended with fewer cells than the player had, all timers run out
C7_Witness ==
  /\ pc = "broadcast"
  /\ \E k \in 1..Len(mergeLog) : mergeLog[k].ta <= 0 /\ mergeLog[k].tb <= 0

\* C8: every cell that detonates in the virus pass is gone from its owner's
\* sequence when the pass ends, and the owner's new cells are between 8 and
\* 16 fragments per detonated cell with the total area of the detonated
\* cells (to the rounding of the fragments' radius).
C8_Explosion ==
  [][(pc = "viruses" /\ pc' = "merge") =>
       \A id \in PlayerIds :
         LET hit == {explodeLog'[k].cell :
                       k \in {n \in 1..Len(explodeLog') : explodeLog'[n].owner = id}}
             before == players[id].cells
             after == players'[id].cells
             gone == SelectSeq(before, LAMBDA c : c.id \in hit)
             new == SelectSeq(after, LAMBDA c : c.id \notin CellIds(before))
         IN /\ hit \cap CellIds(after) = {}
            /\ 8 * Cardinality(hit) <= Len(new)
            /\ Len(new) <= 16 * Cardinality(hit)
            /\ Abs(totalArea(new) - totalArea(gone)) <= RoundingSlack(new)]_vars

\* the message {type: "split"} is handled for the player of connection ws
SplitStep(ws) == HandleMessage(ws, [type |-> "split"])

\* what C9 says of the cells p before and q after a split along dir (1/UNIT):
\* lengths to the quantum, so r/2 is within half a quantum and the distance
\* of the centres within a quantum and a half of 2.5 * (r/2)
SplitShape(p, q, dir) ==
  LET n == Len(p)
      big == {i \in 1..n : p[i].radius >= 10 * Q}
      rank(i) == Cardinality({k \in big : k <= i})
  IN /\ Len(q) = n + Cardinality(big)
     /\ \A i \in (1..n) \ big : q[i] = p[i]
     /\ \A i \in big :
          LET old == q[i]
              new == q[n + rank(i)]
              ex == new.x - old.x
              ey == new.y - old.y
          IN /\ old.id = p[i].id
             /\ new.id \notin CellIds(p)
             /\ Abs(2 * old.radius - p[i].radius) <= 1
             /\ new.radius = old.radius
             /\ old.mergeTimer = MERGE_TIME * MS
             /\ new.mergeTimer = MERGE_TIME * MS
             /\ (5 * old.radius - 3) * (5 * old.radius - 3) <= 4 * (ex * ex + ey * ey)
             /\ 4 * (ex * ex + ey * ey) <= (5 * old.radius + 3) * (5 * old.radius + 3)
             /\ ex * dir[1] + ey * dir[2] > 0
             /\ Abs(ex * dir[2] - ey * dir[1]) <= HypotOr1(dir[1], dir[2])

\* C9: a split of a player with a non-zero direction turns every cell of
\* radius r >= 10 into two cells of radius r/2 with centres 2.5 * (r/2) apart
\* along the direction, both with mergeTimer MERGE_TIME, the new cells
\* appended; the cells of radius < 10 stay as they are.
C9_SplitShape ==
  [][\A ws \in PlayerIds :
       (SplitStep(ws) /\ players[ws].inputDir # <<0, 0>>) =>
         SplitShape(players[ws].cells, players'[ws].cells, players[ws].inputDir)]_vars

\* a player with a non-zero direction who held a cell of radius < 10 and a
\* larger one has split: the small cell is where it was and the new cell is last
C9_Witness ==
  \E id \in PlayerIds :
    LET cells == players[id].cells
    IN /\ players[id].inputDir # <<0, 0>>
       /\ Len(cells) = 3
       /\ cells[1].radius < 10 * Q
       /\ cells[1].id = <<id, 1>> /\ cells[2].id = <<id, 2>> /\ cells[3].id = <<id, 3>>
       /\ cells[2].radius = cells[3].radius
       /\ cells[2].x # cells[3].x

\* C10: a split leaves the total area of the player's cells as it was (to the
\* rounding of the halved radii).
C10_SplitKeepsArea ==
  [][\A ws \in PlayerIds :
       SplitStep(ws) =>
         Abs(totalArea(players'[ws].cells) - totalArea(players[ws].cells))
           <= RoundingSlack(players'[ws].cells)]_vars

\* the message {type: "eject"} is handled for the player of connection ws
EjectStep(ws) == HandleMessage(ws, [type |-> "eject"])

\* what C11 says of an eject along a non-zero dir (1/UNIT): p, q the player's
\* cells and fs, gs the foods before and after; lengths to the quantum
EjectShape(p, q, fs, gs, dir) ==
  LET n == Len(p)
      big == {i \in 1..n : p[i].radius >= 35 * Q}
      rank(i) == Cardinality({k \in big : k <= i})
      pellet == 2 * cellAreaFromRadius(FOOD_RADIUS * Q)
  IN /\ Len(q) = n
     /\ Len(gs) = Len(fs) + Cardinality(big)
     /\ SubSeq(gs, 1, Len(fs)) = fs
     /\ \A i \in (1..n) \ big : q[i] = p[i]
     /\ \A i \in big :
          LET f == gs[Len(fs) + rank(i)]
              ex == f.x - q[i].x
              ey == f.y - q[i].y
              reach == q[i].radius + FOOD_RADIUS * Q
          IN /\ q[i] = [p[i] EXCEPT !.radius = q[i].radius]
             /\ Abs(cellAreaFromRadius(q[i].radius)
                      - (cellAreaFromRadius(p[i].radius) - pellet)) <= q[i].radius
             /\ f.isEjected
             /\ f.radius = FOOD_RADIUS * Q
             /\ ex * ex + ey * ey >= reach * reach
             /\ ex * dir[1] + ey * dir[2] > 0
             /\ Abs(ex * dir[2] - ey * dir[1]) <= HypotOr1(dir[1], dir[2])

\* C11: an eject takes twice a pellet's area from every cell of radius >= 35
\* and adds one ejected food per such cell, centred at least new radius +
\* FOOD_RADIUS from the cell's centre along the player's direction; smaller
\* cells are unchanged; with a zero-length direction nothing happens.
C11_Eject ==
  [][\A ws \in PlayerIds :
       EjectStep(ws) =>
         IF players[ws].inputDir = <<0, 0>>
         THEN players' = players /\ foods' = foods
         ELSE EjectShape(players[ws].cells, players'[ws].cells, foods, foods',
                         players[ws].inputDir)]_vars

(* ---------------- leaderboard and snapshot (src/server.js 47-57, 493-505, 702-724) ---------------- *)
\* Math.floor(totalArea / 10), with the area pi * r * r in world units
calculateScoreFromCells(cells) ==
  IF Len(cells) = 0 THEN 0
  ELSE FloorDiv(PI_NUM * totalArea(cells), PI_DEN * Q * Q * 10)

RECURSIVE sortByScore(_, _)
\* items.sort((a, b) => b.score - a.score): stable, by decreasing score;
\* done holds the items placed so far
sortByScore(items, done) ==
  IF items = <<>> THEN done
  ELSE LET it == Head(items)
           k == Cardinality({i \in 1..Len(done) : done[i].score >= it.score})
       IN sortByScore(Tail(items), SubSeq(done, 1, k) \o <<it>> \o SubSeq(done, k + 1, Len(done)))

\* the players with their scores, in the order of players.values()
scoredPlayers(ps) ==
  LET order == SetToSeq(DOMAIN ps)
  IN [k \in 1..Len(order) |->
        [player |-> order[k], score |-> calculateScoreFromCells(ps[order[k]].cells)]]

\* getLeaderboard without the sort
getLeaderboardUnsorted(ps) ==
  LET items == scoredPlayers(ps)
      top == SubSeq(items, 1, Min(10, Len(items)))
  IN [i \in 1..Len(top) |-> [name |-> ps[top[i].player].name, score |-> top[i].score]]

getLeaderboard(ps) ==
  LET sorted == sortByScore(scoredPlayers(ps), <<>>)
      top == SubSeq(sorted, 1, Min(10, Len(sorted)))
  IN [i \in 1..Len(top) |-> [name |-> ps[top[i].player].name, score |-> top[i].score]]

\* the payload of broadcastState()
broadcastState ==
  [type |-> "state",
   foods |-> foods,
   viruses |-> viruses,
   players |-> [k \in 1..Len(PlayerOrder) |->
                  LET p == players[PlayerOrder[k]]
                  IN [id |-> p.id, name |-> p.name, skin |-> p.skin, color |-> p.color,
                      score |-> calculateScoreFromCells(p.cells), cells |-> p.cells]],
   leaderboard |-> getLeaderboard(players)]

\* the radius that player id has come to, of two per player, in quanta
LeaderRadius(id, big) == IF big THEN 160 + 3 * id ELSE 201 - 5 * id

\* between MaxLeaderPlayers - 2 and MaxLeaderPlayers players are connected,
\* each holding one cell, and update() is about to broadcast
LeaderInit ==
  /\ \E n \in (MaxLeaderPlayers - 2)..MaxLeaderPlayers : \E big \in [1..n -> BOOLEAN] :
       /\ nextPlayerId = n + 1
       /\ clients = 1..n
       /\ players = [id \in 1..n |->
                       [createPlayer(id, 0, 0) EXCEPT
                          !.cells[1].radius = LeaderRadius(id, big[id]),
                          !.cells[1].x = 400 * id - 2400]]
  /\ nextFoodId = FOOD_COUNT + 1
  /\ nextVirusId = VIRUS_COUNT + 1
  /\ foods = initWorldFoods
  /\ viruses = initWorldViruses
  /\ pc = "broadcast"
  /\ dt = 50
  /\ ticks = 0
  /\ eatLog = <<>>
  /\ explodeLog = <<>>
  /\ mergeLog = <<>>
  /\ msgs = 0

LeaderNext == Broadcast

LeaderSpec == LeaderInit /\ [][LeaderNext]_vars

\* C12: the leaderboard of every snapshot has min(10, number of players)
\* entries of distinct players, in order of non-increasing score, each score
\* being floor(sum of the player's cell areas / 10), and no player left off
\* it has a greater score than a listed one.
C12_Leaderboard ==
  pc = "broadcast" =>
    LET lb == broadcastState.leaderboard
        score(id) == (PI_NUM * SumSeq([i \in 1..Len(players[id].cells) |->
                                         players[id].cells[i].radius * players[id].cells[i].radius]))
                       \div (PI_DEN * Q * Q * 10)
        listed == {id \in PlayerIds : \E i \in 1..Len(lb) : lb[i].name = players[id].name}
    IN /\ Len(lb) = Min(10, Cardinality(PlayerIds))
       /\ Cardinality(listed) = Len(lb)
       /\ \A i \in 1..(Len(lb) - 1) : lb[i].score >= lb[i + 1].score
       /\ \A id \in listed : \E i \in 1..Len(lb) :
            lb[i].name = players[id].name /\ lb[i].score = score(id)
       /\ \A id \in PlayerIds \ listed : \A i \in 1..Len(lb) : score(id) <= lb[i].score

\* a snapshot of eleven players, the first in connection order not leading
C12_Witness ==
  /\ pc = "broadcast"
  /\ Cardinality(PlayerIds) = 11
  /\ broadcastState.leaderboard[1].name # players[1].name
  /\ broadcastState.leaderboard[1].score > broadcastState.leaderboard[10].score

\* the connections that have ever been opened, closed ones included
Connections == 1..(nextPlayerId - 1)

\* C13: a message that is malformed JSON, of an unrecognized type, or from a
\* connection with no registered player leaves players, foods and viruses
\* unchanged; an accepted message of player ws changes only the record of ws
\* (never its id) and, for eject, appends ejected food; the viruses and the
\* other players' records stay as they were.
C13_MessageIsolation ==
  [][\A ws \in Connections, raw \in Messages :
       HandleMessage(ws, raw) =>
         /\ viruses' = viruses
         /\ DOMAIN players' = DOMAIN players
         /\ ("bad" \in DOMAIN raw
               \/ raw.type \notin {"join", "input", "split", "eject"}
               \/ ws \notin clients
               \/ ws \notin PlayerIds)
              => players' = players /\ foods' = foods
         /\ \A id \in PlayerIds \ {ws} : players'[id] = players[id]
         /\ ws \in PlayerIds => players'[ws].id = players[ws].id
         /\ Len(foods') >= Len(foods)
         /\ SubSeq(foods', 1, Len(foods)) = foods
         /\ foods' # foods =>
              /\ raw.type = "eject"
              /\ \A k \in (Len(foods) + 1)..Len(foods') : foods'[k].isEjected]_vars

\* two players are connected and only messages have been handled; player 1
\* has steered and ejected, the record of player 2 is as it was created
C13_Witness ==
  /\ pc = "idle" /\ ticks = 0 /\ msgs = MaxMsgs
  /\ PlayerIds = {1, 2}
  /\ players[1].inputDir # <<0, 0>>
  /\ \E k \in 1..Len(foods) : foods[k].isEjected
  /\ \E pos \in SpawnPts : players[2] = createPlayer(2, pos[1] * Q, pos[2] * Q)

\* C14: in every reachable state every cell of every player has a radius
\* greater than 0.
C14_RadiusPositive ==
  \A id \in PlayerIds : \A i \in 1..Len(players[id].cells) : players[id].cells[i].radius > 0

\* a player has split, ejected and been through a tick, and holds a cell too
\* small to eject or split again next to one that has eaten or merged
C14_Witness ==
  /\ ticks >= 1
  /\ \E k \in 1..Len(foods) : foods[k].isEjected
  /\ \E id \in PlayerIds :
       /\ \E i \in 1..Len(players[id].cells) : players[id].cells[i].radius < 35 * Q
       /\ \E i \in 1..Len(players[id].cells) : players[id].cells[i].radius > 40 * Q

(* ---------------- QuadTree on its own (src/server.js 61-162) ---------------- *)
\* capacities of a tree: the smallest, one below the number of objects a
\* point may carry here, and the one of qtFood
QtCapacities == {1, 2, 10}

\* the point that many objects share, in quanta
QtShared == <<400, 200>>

\* centres of the inserted objects, in quanta: the shared point inside the
\* root, the root's centre (the corner shared by the four children), a point
\* on its east edge, a quantum past that edge, its north-west corner, a
\* quantum past the north edge
QtPoints == { QtShared, <<0, 0>>, <<12000, 0>>, <<12001, 0>>,
              <<-12000, -12000>>, <<0, -12001>> }

\* query boxes {x, y, w, h}, in quanta: the world, the single point
\* <<0, 0>>, a box around <<400, 200>> with that point on its edge, a box
\* ending on the east edge, a box across the east edge
QtBoxes == { [x |-> 0, y |-> 0, w |-> 24000, h |-> 24000],
             [x |-> 0, y |-> 0, w |-> 0, h |-> 0],
             [x |-> 440, y |-> 200, w |-> 80, h |-> 80],
             [x |-> 11960, y |-> 0, w |-> 80, h |-> 80],
             [x |-> 12040, y |-> 0, w |-> 100, h |-> 100] }

\* no object yet
QtInit ==
  /\ nextPlayerId = 1
  /\ nextFoodId = 1
  /\ nextVirusId = 1
  /\ clients = {}
  /\ players = << >>
  /\ foods = <<>>
  /\ viruses = <<>>
  /\ pc = "idle"
  /\ dt = 0
  /\ ticks = 0
  /\ eatLog = <<>>
  /\ explodeLog = <<>>
  /\ mergeLog = <<>>
  /\ msgs = 0

\* one more object for the tree, centred at <<x, y>>; at most MaxQtOthers
\* objects are away from the shared point
QtAdd(x, y) ==
  /\ Len(foods) < MaxQtObjs
  /\ \/ <<x, y>> = QtShared
     \/ Cardinality({k \in 1..Len(foods) : <<foods[k].x, foods[k].y>> # QtShared}) < MaxQtOthers
  /\ foods' = Append(foods, createFood(nextFoodId, FALSE, x, y, 0, 0))
  /\ nextFoodId' = nextFoodId + 1
  /\ UNCHANGED <<nextPlayerId, nextVirusId, clients, players, viruses, pc, dt, ticks,
                 eatLog, explodeLog, mergeLog, msgs>>

QtNext == \E pos \in QtPoints : QtAdd(pos[1], pos[2])

QtSpec == QtInit /\ [][QtNext]_vars

\* the objects foods[1..k] inserted in order into a fresh tree
QtTree(cap, k) == insertAll(QuadTree(WorldBoundary, cap, 0, QtMaxDepth), foods, 1, k)

RECURSIVE QtDepth(_)
\* the depth of the deepest node of tree t
QtDepth(t) ==
  IF ~t.divided THEN t.depth
  ELSE Max(Max(QtDepth(t.kids[1]), QtDepth(t.kids[2])),
           Max(QtDepth(t.kids[3]), QtDepth(t.kids[4])))

\* the centre of o is within the root bounds
InRoot(o) == Abs(2 * o.x) <= WORLD_SIZE * Q /\ Abs(2 * o.y) <= WORLD_SIZE * Q

\* the centre of o is within the closed box
InBox(o, box) == Abs(2 * (o.x - box.x)) <= box.w /\ Abs(2 * (o.y - box.y)) <= box.h

\* C15: for the objects inserted in order into a fresh QuadTree of any
\* capacity and maxDepth 8, insert returns false exactly for the objects
\* centred outside the root bounds, and queryRange(box) returns, once each,
\* exactly the objects centred inside the root bounds and the closed box.
C15_QuadTree ==
  \A cap \in QtCapacities :
    /\ \A k \in 1..Len(foods) : insert(QtTree(cap, k - 1), foods[k]).ok <=> InRoot(foods[k])
    /\ \A box \in QtBoxes :
         LET found == queryRange(QtTree(cap, Len(foods)), box, <<>>)
         IN /\ \A i \in 1..Len(found) : \E k \in 1..Len(foods) : found[i] = foods[k]
            /\ \A k \in 1..Len(foods) :
                 Cardinality({i \in 1..Len(found) : found[i] = foods[k]})
                   = IF InRoot(foods[k]) /\ InBox(foods[k], box) THEN 1 ELSE 0

\* ten objects share a point: the tree of capacity 1 is divided down to
\* maxDepth and its deepest node holds more objects than its capacity; an
\* eleventh object is outside the root
C15_Witness ==
  /\ Len(foods) = 11
  /\ Cardinality({k \in 1..11 : <<foods[k].x, foods[k].y>> = QtShared}) = 10
  /\ \E k \in 1..11 : ~InRoot(foods[k])
  /\ QtDepth(QtTree(1, 11)) = QtMaxDepth
  /\ Len(queryRange(QtTree(1, 11), [x |-> 440, y |-> 200, w |-> 80, h |-> 80], <<>>)) = 10

\* the phases of update() in order: each pair is the phase about to run and
\* the one that follows it
PhaseOrder ==
  { <<"idle", "move">>, <<"move", "food">>, <<"food", "cells">>, <<"cells", "viruses">>,
    <<"viruses", "merge">>, <<"merge", "broadcast">>, <<"broadcast", "idle">> }

\* C16: a tick runs bot decisions, movement, food consumption, cell-vs-cell
\* consumption, the virus check, the merge and one broadcast, each once and
\* in this order; between the first phase and the broadcast every step is the
\* next phase, and no message, connect or disconnect takes effect; eating,
\* explosions and merges happen only in their own phase and a tick is counted
\* only by its broadcast.
C16_TickOrder ==
  [][/\ pc' # pc => <<pc, pc'>> \in PhaseOrder
     /\ pc # "idle" =>
          /\ pc' # pc
          /\ msgs' = msgs
          /\ clients' = clients
          /\ nextPlayerId' = nextPlayerId
          /\ DOMAIN players' = DOMAIN players
     /\ eatLog' # eatLog => pc = "cells" \/ (pc = "idle" /\ pc' = "move" /\ eatLog' = <<>>)
     /\ explodeLog' # explodeLog =>
          pc = "viruses" \/ (pc = "idle" /\ pc' = "move" /\ explodeLog' = <<>>)
     /\ mergeLog' # mergeLog => pc = "merge" \/ (pc = "idle" /\ pc' = "move" /\ mergeLog' = <<>>)
     /\ ticks' # ticks => pc = "broadcast" /\ ticks' = ticks + 1
     /\ pc = "broadcast" => ticks' = ticks + 1]_vars

\* a whole tick has run after messages were handled: a cell was eaten in it
\* and a player was there to receive its broadcast
C16_Witness ==
  /\ pc = "idle"
  /\ ticks = 1
  /\ msgs > 0
  /\ eatLog # <<>>
  /\ clients # {}

\* the ids of the foods
FoodIds(fs) == {fs[k].id : k \in 1..Len(fs)}

\* food f and cell c overlap by the narrow-phase test of the food pass
FoodHit(c, f) == Dist2(c.x, c.y, f.x, f.y) < Sq(c.radius + f.radius)

\* C17: the food pass never misses a true hit: every food that a cell
\* overlaps (centre distance below the sum of the radii) when the pass begins
\* is consumed in it, whatever the cell's radius and wherever the food lies.
C17_NoMissedFood ==
  [][pc = "food" =>
       \A k \in 1..Len(foods) :
         (\E id \in PlayerIds : \E i \in 1..Len(players[id].cells) :
            FoodHit(players[id].cells[i], foods[k]))
           => foods[k].id \notin FoodIds(foods')]_vars

\* position p became q in a tick of length dt, which is dt times the velocity
\* v, to the rounding of the fixed-point position and velocity
MovedBy(p, q, v) == 2 * Abs((q - p) * MS - v * dt) <= MS + dt

\* C18: the movement phase accelerates, applies the drag, integrates the
\* position with the dragged velocity and then clamps: for every cell that
\* the clamp leaves alone, the position change of the tick is dt times the
\* velocity the cell has after the drag.
C18_DragThenIntegrate ==
  [][pc = "move" =>
       \A id \in PlayerIds : \A i \in 1..Len(players[id].cells) :
         LET c == players[id].cells[i]
             m == players'[id].cells[i]
         IN /\ Abs(m.x) < worldHalf - c.radius => MovedBy(c.x, m.x, m.vx)
            /\ Abs(m.y) < worldHalf - c.radius => MovedBy(c.y, m.y, m.vy)]_vars

\* C19: within one cell-vs-cell pass a cell that an earlier hit has removed
\* from its owner's sequence never acts as an eater afterwards: every hit
\* that removes a cell is by a cell that its owner still holds.
C19_NoGhostEater ==
  \A k \in 1..Len(eatLog) : eatLog[k].removed => eatLog[k].eaterPresent

(* ---------------- the merge pass on its own (src/server.js 674-697) ---------------- *)
\* the cells a player may hold when the merge pass begins, in quanta: on one
\* line, at 10 units west of the origin, at the origin, 45 units and 2000
\* units east of it, of radius 20 or 40, with the merge timer run out or
\* with 50 ms left
MergeCellChoices ==
  [x : {-40, 0, 180, 8000}, y : {0}, radius : {80, 160}, vx : {0}, vy : {0},
   mergeTimer : {0, 50}]

\* one connected player holding 2..MaxMergeCells cells; update() has come to
\* the merge of a tick of 50 ms
MergeInit ==
  /\ nextPlayerId = 2
  /\ nextFoodId = FOOD_COUNT + 1
  /\ nextVirusId = VIRUS_COUNT + 1
  /\ clients = {1}
  /\ \E n \in 2..MaxMergeCells : \E cs \in [1..n -> MergeCellChoices] :
       players = << [createPlayer(1, 0, 0) EXCEPT
                       !.cells = [i \in 1..n |-> [id |-> <<1, i>>] @@ cs[i]],
                       !.serial = n] >>
  /\ foods = initWorldFoods
  /\ viruses = initWorldViruses
  /\ pc = "merge"
  /\ dt = 50
  /\ ticks = 0
  /\ eatLog = <<>>
  /\ explodeLog = <<>>
  /\ mergeLog = <<>>
  /\ msgs = 0

MergeNext == TickMerge \/ Broadcast

MergeSpec == MergeInit /\ [][MergeNext]_vars

\* C20: at the end of every merge pass no player holds two cells that both
\* have mergeTimer <= 0 and overlap (squared centre distance below the
\* squared sum of the radii), pairs that came to overlap by a merge of the
\* same pass included.
C20_MergedApart ==
  pc = "broadcast" =>
    \A id \in PlayerIds : \A i, j \in 1..Len(players[id].cells) :
      LET a == players[id].cells[i]
          b == players[id].cells[j]
      IN i < j =>
           ~(/\ a.mergeTimer <= 0
             /\ b.mergeTimer <= 0
             /\ Dist2(a.x, a.y, b.x, b.y) < Sq(a.radius + b.radius))

(* ---------------- a player without cells (src/server.js 648-652) ---------------- *)
\* the cells player 1 may be left with after a split: none, both halves
\* having been eaten, or the second half, of radius 20
GoneCellChoices ==
  { <<>>,
    << [id |-> <<1, 2>>, x |-> 0, y |-> 0, radius |-> 20 * Q,
        vx |-> 0, vy |-> 0, mergeTimer |-> MERGE_TIME * MS] >> }

\* between ticks, player 1 is connected and holds the cells it is left with;
\* whoever ate the others has left
GoneInit ==
  /\ nextPlayerId = 2
  /\ nextFoodId = FOOD_COUNT + 1
  /\ nextVirusId = VIRUS_COUNT + 1
  /\ clients = {1}
  /\ \E cs \in GoneCellChoices :
       players = << [createPlayer(1, 0, 0) EXCEPT !.cells = cs, !.serial = 2] >>
  /\ foods = initWorldFoods
  /\ viruses = initWorldViruses
  /\ pc = "idle"
  /\ dt = 0
  /\ ticks = 0
  /\ eatLog = <<>>
  /\ explodeLog = <<>>
  /\ mergeLog = <<>>
  /\ msgs = 0

GoneSpec == GoneInit /\ [][Next]_vars

\* C21: a player whose cell sequence is empty stays in the registry, with
\* an empty sequence and score 0 (also on the leaderboard), until its
\* connection closes: no phase of a tick and no message adds a cell to it,
\* and it leaves the registry only by the close of its connection, between
\* ticks.
C21_EliminatedStays ==
  [][\A id \in PlayerIds :
       players[id].cells = <<>> =>
         IF id \in DOMAIN players'
         THEN /\ players'[id].cells = <<>>
              /\ calculateScoreFromCells(players'[id].cells) = 0
              /\ \A k \in 1..Len(getLeaderboard(players')) :
                   getLeaderboard(players')[k].name = players'[id].name
                     => getLeaderboard(players')[k].score = 0
         ELSE pc = "idle" /\ id \in clients /\ id \notin clients']_vars

\* player 1 had no cell before the tick (no cell was eaten in it), has sent
\* a join and an input, has been through a whole tick next to a second
\* player and is still registered without cells
C21_Witness ==
  /\ pc = "idle"
  /\ ticks = 1
  /\ eatLog = <<>>
  /\ PlayerIds = {1, 2}
  /\ players[1].cells = <<>>
  /\ players[1].skin = 2
  /\ players[1].inputDir # <<0, 0>>

====
